---- MODULE Spec2Model ----
(***************************************************************************)
(* The type-coercion optimizer rule of DataFusion                          *)
(* (rust/datafusion/src/optimizer/type_coercion.rs).                       *)
(*                                                                         *)
(* rewrite_expr and optimize are pure recursive functions; they are        *)
(* modelled as recursive operators that return an outcome record           *)
(*   [tag, val, err, visited]                                              *)
(* where tag is "Ok" (Result::Ok), "Err" (Result::Err) or "Panic" (the     *)
(* call unwinds), and visited is the sequence of expressions on which      *)
(* rewrite_expr was entered, in evaluation order.                          *)
(***************************************************************************)
EXTENDS Naturals, Sequences, FiniteSets, TLC

VARIABLES
    scalar_functions, \* TypeCoercionRule.scalar_functions: name -> meta-data
    pc,               \* position of the caller: "new", "rewritten", "again",
                      \* "building", "explained", "optimized", "reoptimized"
    schema,           \* the schema handed to rewrite_expr
    expr,             \* the expression handed to rewrite_expr
    out,              \* outcome of rewrite_expr(expr, schema)
    out2,             \* outcome of rewriting out.val once more
    plan,             \* the plan handed to optimize
    pout,             \* outcome of optimize(plan)
    pout2             \* outcome of optimizing pout.val once more

vars == <<scalar_functions, pc, schema, expr, out, out2, plan, pout, pout2>>

(***************************************************************************)
(* Bounds                                                                  *)
(***************************************************************************)
MaxArgs == 2        \* longest argument list of a function call
MaxPlanDepth == 2   \* most plan nodes stacked on a leaf

(***************************************************************************)
(* Primitive types and the supertype resolver                              *)
(***************************************************************************)
SignedTypes == {"Int32", "Int64"}
UnsignedTypes == {"UInt8", "UInt32"}
FloatTypes == {"Float32", "Float64"}
IntegerTypes == SignedTypes \cup UnsignedTypes
NumericTypes == IntegerTypes \cup FloatTypes
DataTypes == NumericTypes \cup {"Utf8", "Boolean"}

BitWidth(t) ==
    CASE t = "UInt8" -> 8
      [] t \in {"UInt32", "Int32", "Float32"} -> 32
      [] t \in {"Int64", "Float64"} -> 64
      [] OTHER -> 0

Wider(a, b) == IF BitWidth(a) >= BitWidth(b) THEN a ELSE b

TOk(t) == [tag |-> "Ok", val |-> t, err |-> ""]
TErr(e) == [tag |-> "Err", val |-> "", err |-> e]

TypeError(a, b) == "Failed to determine supertype of " \o a \o " and " \o b

\* the signed types that hold every value of unsigned u and of signed s
SignedHolding(u, s) ==
    {t \in SignedTypes : BitWidth(t) > BitWidth(u) /\ BitWidth(t) >= BitWidth(s)}

Narrowest(ts) == CHOOSE t \in ts : \A o \in ts : BitWidth(t) <= BitWidth(o)

MixedSign(u, s, l, r) ==
    IF SignedHolding(u, s) = {} THEN TErr(TypeError(l, r))
    ELSE TOk(Narrowest(SignedHolding(u, s)))

get_supertype(l, r) ==
    IF l = r THEN TOk(l)
    ELSE IF l \in SignedTypes /\ r \in SignedTypes THEN TOk(Wider(l, r))
    ELSE IF l \in UnsignedTypes /\ r \in UnsignedTypes THEN TOk(Wider(l, r))
    ELSE IF l \in FloatTypes /\ r \in FloatTypes THEN TOk(Wider(l, r))
    ELSE IF l \in UnsignedTypes /\ r \in SignedTypes THEN MixedSign(l, r, l, r)
    ELSE IF l \in SignedTypes /\ r \in UnsignedTypes THEN MixedSign(r, l, l, r)
    ELSE IF l \in IntegerTypes /\ r \in FloatTypes THEN TOk(r)
    ELSE IF l \in FloatTypes /\ r \in IntegerTypes THEN TOk(l)
    ELSE TErr(TypeError(l, r))

(***************************************************************************)
(* Expressions (Expr) and schemas                                          *)
(***************************************************************************)
Column(n) == [kind |-> "Column", name |-> n]
Literal(t) == [kind |-> "Literal", data_type |-> t]
BinaryExpr(l, o, r) == [kind |-> "BinaryExpr", left |-> l, op |-> o, right |-> r]
IsNull(e) == [kind |-> "IsNull", expr |-> e]
IsNotNull(e) == [kind |-> "IsNotNull", expr |-> e]
Not(e) == [kind |-> "Not", expr |-> e]
Nested(e) == [kind |-> "Nested", expr |-> e]
Sort(e) == [kind |-> "Sort", expr |-> e, asc |-> TRUE]
Cast(e, t) == [kind |-> "Cast", expr |-> e, data_type |-> t]
Alias(e, a) == [kind |-> "Alias", expr |-> e, alias |-> a]
ScalarFunction(n, a, t) ==
    [kind |-> "ScalarFunction", name |-> n, args |-> a, return_type |-> t]
AggregateFunction(n, a, t) ==
    [kind |-> "AggregateFunction", name |-> n, args |-> a, return_type |-> t]
Wildcard == [kind |-> "Wildcard"]

Field(n, t) == [name |-> n, data_type |-> t]

HasField(s, n) == \E i \in 1..Len(s) : s[i].name = n

field_with_name(s, n) ==
    s[CHOOSE i \in 1..Len(s) : s[i].name = n /\ \A j \in 1..(i - 1) : s[j].name # n]

WildcardMsg == "Wildcard expressions are not valid in a logical query plan"

RECURSIVE get_type(_, _)
get_type(e, s) ==
    CASE e.kind = "Column" ->
            IF HasField(s, e.name) THEN TOk(field_with_name(s, e.name).data_type)
            ELSE TErr("Unable to get field named " \o e.name)
      [] e.kind = "Literal" -> TOk(e.data_type)
      [] e.kind = "Cast" -> TOk(e.data_type)
      [] e.kind \in {"ScalarFunction", "AggregateFunction"} -> TOk(e.return_type)
      [] e.kind \in {"Not", "IsNull", "IsNotNull"} -> TOk("Boolean")
      [] e.kind \in {"Alias", "Sort", "Nested"} -> get_type(e.expr, s)
      [] e.kind = "BinaryExpr" ->
            LET lt == get_type(e.left, s) IN
            IF lt.tag # "Ok" THEN lt
            ELSE LET rt == get_type(e.right, s) IN
                 IF rt.tag # "Ok" THEN rt
                 ELSE get_supertype(lt.val, rt.val)
      [] OTHER -> TErr(WildcardMsg)

NoVal == [kind |-> "None"]

COk(e) == [tag |-> "Ok", val |-> e, err |-> ""]
CErr(m) == [tag |-> "Err", val |-> NoVal, err |-> m]

cast_to(e, cast_to_type, s) ==
    LET this_type == get_type(e, s) IN
    IF this_type.tag # "Ok" THEN CErr(this_type.err)
    ELSE IF this_type.val = cast_to_type THEN COk(e)
    ELSE COk(Cast(e, cast_to_type))

(***************************************************************************)
(* Outcomes of the rewriter                                                *)
(***************************************************************************)
ROk(v, vis) == [tag |-> "Ok", val |-> v, err |-> "", visited |-> vis]
RErr(m, vis) == [tag |-> "Err", val |-> NoVal, err |-> m, visited |-> vis]
RPanic(vis) ==
    [tag |-> "Panic", val |-> NoVal, err |-> "index out of bounds", visited |-> vis]

\* the outcome o of a step that ran after the steps logged in vis
After(vis, o) == [o EXCEPT !.visited = vis \o @]

InvalidFunctionMsg(n) == "Invalid scalar function " \o n

(***************************************************************************)
(* The `?` operator: a failure (Err or Panic) leaves the function at once, *)
(* a success hands its value to the rest of the function.                  *)
(***************************************************************************)
\* outcome?, the rest k of the function takes the outcome
Try(o, k(_)) == IF o.tag # "Ok" THEN o ELSE k(o)

\* t?, for the result t of get_type, get_supertype, cast_to or a builder
\* step made after the rewrites logged in vis; k takes the value
TryValue(t, vis, k(_)) == IF t.tag # "Ok" THEN RErr(t.err, vis) ELSE k(t.val)

(***************************************************************************)
(* TypeCoercionRule::rewrite_expr, one operator per match arm              *)
(***************************************************************************)
RECURSIVE rewrite_expr(_, _)
RECURSIVE rewrite_expr_list(_, _)
RECURSIVE rewrite_args(_, _, _, _, _, _)

\* coerce_operands without the cast of the right operand
coerce_operands_left_only(left, op, right, left_type, right_type, s, vis) ==
    TryValue(get_supertype(left_type, right_type), vis, LAMBDA super_type :
    TryValue(cast_to(left, super_type, s), vis, LAMBDA lc :
        ROk(BinaryExpr(lc, op, right), vis)))

\* the else branch of the BinaryExpr arm: the operand types differ
coerce_operands(left, op, right, left_type, right_type, s, vis) ==
    TryValue(get_supertype(left_type, right_type), vis, LAMBDA super_type :
    TryValue(cast_to(left, super_type, s), vis, LAMBDA lc :
    TryValue(cast_to(right, super_type, s), vis, LAMBDA rc :
        ROk(BinaryExpr(lc, op, rc), vis))))

rewrite_binary(e, s) ==
    Try(rewrite_expr(e.left, s), LAMBDA left :
    Try(After(left.visited, rewrite_expr(e.right, s)), LAMBDA right :
    TryValue(get_type(left.val, s), right.visited, LAMBDA left_type :
    TryValue(get_type(right.val, s), right.visited, LAMBDA right_type :
        IF left_type = right_type
        THEN ROk(BinaryExpr(left.val, e.op, right.val), right.visited)
        ELSE coerce_operands(left.val, e.op, right.val, left_type, right_type, s,
                 right.visited)))))

\* coerce_arg casting to the declared type instead of the supertype
coerce_arg_to_declared(a, required_type, s) ==
    TryValue(get_type(a.val, s), a.visited, LAMBDA actual_type :
        IF actual_type = required_type THEN a
        ELSE TryValue(get_supertype(actual_type, required_type), a.visited,
                 LAMBDA super_type :
             TryValue(cast_to(a.val, required_type, s), a.visited, LAMBDA c :
                 ROk(c, a.visited))))

\* the body of `for i in 0..args.len()` of the ScalarFunction arm for one
\* argument whose rewrite gave a.val: compare with the declared type, cast
coerce_arg(a, required_type, s) ==
    TryValue(get_type(a.val, s), a.visited, LAMBDA actual_type :
        IF actual_type = required_type THEN a
        ELSE TryValue(get_supertype(actual_type, required_type), a.visited,
                 LAMBDA super_type :
             TryValue(cast_to(a.val, super_type, s), a.visited, LAMBDA c :
                 ROk(c, a.visited))))

\* the loop of the ScalarFunction arm from index i (1-based) on;
\* func_args are the arguments pushed so far
rewrite_args(args, i, func_meta, s, func_args, vis) ==
    IF i > Len(args) THEN ROk(func_args, vis)
    ELSE IF i > Len(func_meta.args) THEN RPanic(vis)
    ELSE Try(After(vis, rewrite_expr(args[i], s)), LAMBDA a :
         Try(coerce_arg(a, func_meta.args[i].data_type, s), LAMBDA c :
             rewrite_args(args, i + 1, func_meta, s, Append(func_args, c.val),
                 c.visited)))

\* rewrite_scalar_function passing a call of an unknown function through
rewrite_scalar_function_pass_through(e, s) ==
    IF e.name \in DOMAIN scalar_functions
    THEN Try(rewrite_args(e.args, 1, scalar_functions[e.name], s, <<>>, <<>>),
             LAMBDA r : ROk(ScalarFunction(e.name, r.val, e.return_type), r.visited))
    ELSE ROk(e, <<>>)

rewrite_scalar_function(e, s) ==
    IF e.name \in DOMAIN scalar_functions
    THEN Try(rewrite_args(e.args, 1, scalar_functions[e.name], s, <<>>, <<>>),
             LAMBDA r : ROk(ScalarFunction(e.name, r.val, e.return_type), r.visited))
    ELSE RErr(InvalidFunctionMsg(e.name), <<>>)

rewrite_aggregate_function(e, s) ==
    Try(rewrite_expr_list(e.args, s), LAMBDA r :
        ROk(AggregateFunction(e.name, r.val, e.return_type), r.visited))

\* IsNull, IsNotNull and Alias: rewrite the inner expression, rebuild the node
rewrite_inner(e, s) ==
    Try(rewrite_expr(e.expr, s), LAMBDA r : ROk([e EXCEPT !.expr = r.val], r.visited))

rewrite_expr(e, s) ==
    After(<<e>>,
        CASE e.kind = "BinaryExpr" -> rewrite_binary(e, s)
          [] e.kind \in {"IsNull", "IsNotNull", "Alias"} -> rewrite_inner(e, s)
          [] e.kind = "ScalarFunction" -> rewrite_scalar_function(e, s)
          [] e.kind = "AggregateFunction" -> rewrite_aggregate_function(e, s)
          [] e.kind \in {"Cast", "Column", "Literal", "Not", "Sort"} -> ROk(e, <<>>)
          [] e.kind = "Wildcard" -> RErr(WildcardMsg, <<>>)
          [] e.kind = "Nested" -> rewrite_expr(e.expr, s))

\* iter().map(rewrite_expr).collect::<Result<Vec<_>>>() stops at the first Err
rewrite_expr_list(es, s) ==
    IF es = <<>> THEN ROk(<<>>, <<>>)
    ELSE Try(rewrite_expr(Head(es), s), LAMBDA h :
         Try(After(h.visited, rewrite_expr_list(Tail(es), s)), LAMBDA t :
             ROk(<<h.val>> \o t.val, t.visited)))

(***************************************************************************)
(* Logical plans and the plan builder                                      *)
(***************************************************************************)
LeafKinds ==
    {"TableScan", "InMemoryScan", "ParquetScan", "CsvScan", "EmptyRelation",
     "CreateExternalTable"}

Leaf(k, s) == [kind |-> k, schema |-> s]
Projection(es, i, s) == [kind |-> "Projection", expr |-> es, input |-> i, schema |-> s]
Selection(e, i, s) == [kind |-> "Selection", predicate |-> e, input |-> i, schema |-> s]
Aggregate(g, a, i, s) ==
    [kind |-> "Aggregate", group_expr |-> g, aggr_expr |-> a, input |-> i, schema |-> s]
Limit(n, i, s) == [kind |-> "Limit", n |-> n, input |-> i, schema |-> s]
SortPlan(es, i, s) == [kind |-> "Sort", expr |-> es, input |-> i, schema |-> s]
Explain(v, p, sp, s) ==
    [kind |-> "Explain", verbose |-> v, plan |-> p, stringified_plans |-> sp,
     schema |-> s]

\* the name of the output field an expression gives
RECURSIVE field_name(_)
field_name(e) ==
    CASE e.kind = "Column" -> e.name
      [] e.kind = "Alias" -> e.alias
      [] e.kind \in {"ScalarFunction", "AggregateFunction"} -> e.name
      [] e.kind \in {"Nested", "Sort"} -> field_name(e.expr)
      [] OTHER -> e.kind

UniqueNames(fs) == \A i, j \in 1..Len(fs) : fs[i].name = fs[j].name => i = j

\* the output schema of a node with the expressions es over a schema s
exprlist_to_fields(es, s) ==
    LET bad == {i \in 1..Len(es) : get_type(es[i], s).tag # "Ok"}
        fs == [i \in 1..Len(es) |-> Field(field_name(es[i]), get_type(es[i], s).val)]
    IN  IF bad # {}
        THEN CErr(get_type(es[CHOOSE i \in bad : \A j \in bad : i <= j], s).err)
        ELSE IF ~UniqueNames(fs) THEN CErr("Duplicate field name in schema")
        ELSE COk(fs)

\* LogicalPlanBuilder::from(input).project(es)?.build()
project(input, es) ==
    LET fs == exprlist_to_fields(es, input.schema) IN
    IF fs.tag # "Ok" THEN CErr(fs.err) ELSE COk(Projection(es, input, fs.val))

\* LogicalPlanBuilder::from(input).filter(e)?.build()
filter(input, e) == COk(Selection(e, input, input.schema))

\* LogicalPlanBuilder::from(input).aggregate(g, a)?.build()
aggregate(input, g, a) ==
    LET fs == exprlist_to_fields(g \o a, input.schema) IN
    IF fs.tag # "Ok" THEN CErr(fs.err) ELSE COk(Aggregate(g, a, input, fs.val))

\* LogicalPlanBuilder::from(input).limit(n)?.build()
limit(input, n) == COk(Limit(n, input, input.schema))

\* LogicalPlanBuilder::from(input).sort(es)?.build()
sort(input, es) == COk(SortPlan(es, input, input.schema))

(***************************************************************************)
(* TypeCoercionRule::optimize, one operator per match arm                  *)
(***************************************************************************)
RECURSIVE optimize(_)

optimize_projection(p) ==
    Try(optimize(p.input), LAMBDA child :
    Try(After(child.visited, rewrite_expr_list(p.expr, p.input.schema)), LAMBDA es :
    TryValue(project(child.val, es.val), es.visited, LAMBDA built :
        ROk(built, es.visited))))

optimize_selection(p) ==
    Try(optimize(p.input), LAMBDA child :
    Try(After(child.visited, rewrite_expr(p.predicate, p.input.schema)), LAMBDA e :
    TryValue(filter(child.val, e.val), e.visited, LAMBDA built :
        ROk(built, e.visited))))

optimize_aggregate(p) ==
    Try(optimize(p.input), LAMBDA child :
    Try(After(child.visited, rewrite_expr_list(p.group_expr, p.input.schema)),
        LAMBDA g :
    Try(After(g.visited, rewrite_expr_list(p.aggr_expr, p.input.schema)), LAMBDA a :
    TryValue(aggregate(child.val, g.val, a.val), a.visited, LAMBDA built :
        ROk(built, a.visited)))))

optimize_limit(p) ==
    Try(optimize(p.input), LAMBDA child :
    TryValue(limit(child.val, p.n), child.visited, LAMBDA built :
        ROk(built, child.visited)))

\* optimize_sort rebuilding the node with project instead of sort
optimize_sort_as_projection(p) ==
    Try(optimize(p.input), LAMBDA child :
    Try(After(child.visited, rewrite_expr_list(p.expr, p.input.schema)), LAMBDA es :
    TryValue(project(child.val, es.val), es.visited, LAMBDA built :
        ROk(built, es.visited))))

optimize_sort(p) ==
    Try(optimize(p.input), LAMBDA child :
    Try(After(child.visited, rewrite_expr_list(p.expr, p.input.schema)), LAMBDA es :
    TryValue(sort(child.val, es.val), es.visited, LAMBDA built :
        ROk(built, es.visited))))

\* utils::optimize_explain: the rule is applied to the wrapped plan
optimize_explain(p) ==
    Try(optimize(p.plan), LAMBDA inner :
        ROk(Explain(p.verbose, inner.val, p.stringified_plans, p.schema),
            inner.visited))

optimize(p) ==
    CASE p.kind = "Projection" -> optimize_projection(p)
      [] p.kind = "Selection" -> optimize_selection(p)
      [] p.kind = "Aggregate" -> optimize_aggregate(p)
      [] p.kind = "Limit" -> optimize_limit(p)
      [] p.kind = "Sort" -> optimize_sort(p)
      [] p.kind \in LeafKinds -> ROk(p, <<>>)
      [] p.kind = "Explain" -> optimize_explain(p)

(***************************************************************************)
(* Inputs: registries, schemas and expressions                             *)
(***************************************************************************)
FuncMeta(ts, rt) ==
    [args |-> [i \in 1..Len(ts) |-> Field("n", ts[i])], return_type |-> rt]

EmptyRegistry == [n \in {} |-> FuncMeta(<<>>, "Float64")]

\* sqrt(Float64) -> Float64 as registered by ExecutionContext::new, and a
\* user-defined function of two parameters
CtxRegistry ==
    ("sqrt" :> FuncMeta(<<"Float64">>, "Float64")) @@
    ("f2" :> FuncMeta(<<"Int32", "Int64">>, "Int32"))

Registries == {EmptyRegistry, CtxRegistry}

FunctionNames == {"sqrt", "f2", "nofn"}

ReturnTypeOf(n) == IF n = "f2" THEN "Int32" ELSE "Float64"

ColumnTypes == {"Int32", "Int64", "UInt32", "Float32", "Float64", "Utf8"}

Schemas == {<<Field("c0", a), Field("c1", b)>> : a \in ColumnTypes, b \in ColumnTypes}

Operators == {"Plus", "Lt"}

Atoms == {Column("c0"), Column("c1"), Column("c2"), Literal("UInt8"), Wildcard}

Unary(X) ==
    {Not(x) : x \in X} \cup {IsNull(x) : x \in X} \cup {IsNotNull(x) : x \in X}
    \cup {Nested(x) : x \in X} \cup {Sort(x) : x \in X}
    \cup {Alias(x, "a") : x \in X} \cup {Cast(x, "Int64") : x \in X}

Binaries(X, O, Y) == {BinaryExpr(l, o, r) : l \in X, o \in O, r \in Y}

ArgLists(X) == UNION {[1..n -> X] : n \in 0..MaxArgs}

Calls(X) == {ScalarFunction(n, a, ReturnTypeOf(n)) : n \in FunctionNames, a \in ArgLists(X)}

CallsOfOne(X) == {ScalarFunction(n, <<x>>, ReturnTypeOf(n)) : n \in FunctionNames, x \in X}

Aggregates(X) == {AggregateFunction("SUM", <<x>>, "Int64") : x \in X}

\* the arguments of the calls of the first level
SimpleArguments == {Column("c0"), Column("c1"), Literal("UInt8"), Wildcard}

Level1 ==
    Unary(Atoms) \cup Binaries(Atoms, Operators, Atoms) \cup Calls(SimpleArguments)
    \cup Aggregates(Atoms)

\* operands of the binary expressions of the second level
Operands ==
    {Column("c0"), Column("c1"), Wildcard,
     BinaryExpr(Column("c0"), "Plus", Column("c1")),
     BinaryExpr(Column("c1"), "Lt", Literal("UInt8")),
     Not(BinaryExpr(Column("c0"), "Plus", Column("c1"))),
     Nested(BinaryExpr(Column("c0"), "Plus", Column("c1"))),
     Cast(Column("c0"), "Int64"),
     Sort(Column("c2")),
     ScalarFunction("sqrt", <<Column("c0")>>, "Float64"),
     ScalarFunction("f2", <<Column("c0"), Column("c1")>>, "Int32"),
     ScalarFunction("nofn", <<Wildcard>>, "Float64")}

\* the arguments of the calls of the second level
NestedArguments ==
    {Column("c1"),
     BinaryExpr(Column("c0"), "Plus", Column("c1")),
     Nested(Column("c0")),
     ScalarFunction("nofn", <<Wildcard>>, "Float64")}

Level2 ==
    Unary(Unary(Atoms) \cup Binaries(Atoms, Operators, Atoms)
          \cup CallsOfOne(SimpleArguments) \cup Aggregates(Atoms))
    \cup Binaries(Operands, {"Plus"}, Operands) \cup Calls(NestedArguments)
    \cup Aggregates(Operands)

Exprs == Atoms \cup Level1 \cup Level2

(***************************************************************************)
(* Inputs: plans.  A node stores its schema as a plain field; optimize     *)
(* reads the stored schema of the child (input.schema()) and the builder   *)
(* computes the schema of every node it rebuilds.  The plans handed to the *)
(* rule carry either the schema the builder computes for the node or a     *)
(* schema set by whoever constructed the node.                             *)
(***************************************************************************)
ScanSchema == <<Field("c0", "Int32"), Field("c1", "Int64")>>
HandSetSchema == <<Field("c0", "Int32"), Field("c1", "Int32")>>

Leaves == {Leaf(k, ScanSchema) : k \in LeafKinds}

col0 == Column("c0")
col1 == Column("c1")

ProjectionLists ==
    {<<col0, col1>>,
     <<Alias(BinaryExpr(col0, "Plus", col1), "a"), Nested(col1)>>,
     <<Wildcard, ScalarFunction("nofn", <<>>, "Float64")>>,
     <<col0, col0>>,
     <<Sort(Column("c2"))>>}

Predicates ==
    {BinaryExpr(col0, "Lt", col1),
     BinaryExpr(col1, "Lt", Literal("UInt8")),
     ScalarFunction("sqrt", <<col0, col1>>, "Float64")}

GroupLists == {<<col0>>, <<Wildcard>>}

AggrLists ==
    {<<AggregateFunction("SUM", <<col1>>, "Int64")>>,
     <<AggregateFunction("SUM", <<ScalarFunction("nofn", <<col1>>, "Float64")>>, "Int64")>>}

SortLists == {<<col0>>, <<BinaryExpr(col0, "Plus", col1)>>}

RowCounts == {10}

\* the schema the builder computes for the expressions es over the plan child,
\* or the hand-set one where the builder rejects es
ComputedSchemas(es, child) ==
    LET fs == exprlist_to_fields(es, child.schema) IN
    IF fs.tag = "Ok" THEN {fs.val} ELSE {HandSetSchema}

\* the nodes that can be put on the plan child
NodesOver(child) ==
    {Projection(es, child, s) : <<es, s>> \in
        UNION {{<<l, t>> : t \in ComputedSchemas(l, child) \cup {HandSetSchema}} :
               l \in ProjectionLists}}
    \cup {Selection(e, child, child.schema) : e \in Predicates}
    \cup {Aggregate(ga[1], ga[2], child, ga[3]) : ga \in
        UNION {{<<g, a, t>> : t \in ComputedSchemas(g \o a, child)} :
               g \in GroupLists, a \in AggrLists}}
    \cup {Limit(n, child, child.schema) : n \in RowCounts}
    \cup {SortPlan(es, child, child.schema) : es \in SortLists}

RECURSIVE PlanDepth(_)
PlanDepth(p) ==
    CASE p.kind \in LeafKinds -> 0
      [] p.kind = "Explain" -> 1 + PlanDepth(p.plan)
      [] OTHER -> 1 + PlanDepth(p.input)

ExplainSchema == <<Field("plan_type", "Utf8"), Field("plan", "Utf8")>>

(***************************************************************************)
(* Driver of the expression rewriter                                       *)
(***************************************************************************)
NoOut == [tag |-> "None", val |-> NoVal, err |-> "", visited |-> <<>>]

Init ==
    /\ scalar_functions \in Registries
    /\ pc = "new"
    /\ schema = <<>>
    /\ expr = NoVal
    /\ out = NoOut
    /\ out2 = NoOut
    /\ plan = NoVal
    /\ pout = NoOut
    /\ pout2 = NoOut

\* binary_cast_test: rule.rewrite_expr(&expr, &schema)
RewriteExpr ==
    /\ pc = "new"
    /\ \E e \in Exprs, s \in Schemas :
        /\ expr' = e
        /\ schema' = s
        /\ out' = rewrite_expr(e, s)
    /\ pc' = "rewritten"
    /\ UNCHANGED <<scalar_functions, out2, plan, pout, pout2>>

\* the rewritten expression is handed to the rule once more
RewriteAgain ==
    /\ pc = "rewritten"
    /\ out.tag = "Ok"
    /\ out2' = rewrite_expr(out.val, schema)
    /\ pc' = "again"
    /\ UNCHANGED <<scalar_functions, schema, expr, out, plan, pout, pout2>>

\* LogicalPlanBuilder::scan_csv(..): the plan starts as a leaf
ScanPlan ==
    /\ pc = "new"
    /\ plan' \in Leaves
    /\ pc' = "building"
    /\ UNCHANGED <<scalar_functions, schema, expr, out, out2, pout, pout2>>

\* .filter(..), .project(..), .aggregate(..), .sort(..), .limit(..) or a node
\* constructed directly: one more node on the plan
AddNode ==
    /\ pc = "building"
    /\ PlanDepth(plan) < MaxPlanDepth
    /\ plan' \in NodesOver(plan)
    /\ UNCHANGED <<scalar_functions, pc, schema, expr, out, out2, pout, pout2>>

\* the plan is wrapped into an Explain node
ExplainPlan ==
    /\ pc = "building"
    /\ PlanDepth(plan) < MaxPlanDepth
    /\ plan' = Explain(FALSE, plan, <<"logical_plan">>, ExplainSchema)
    /\ pc' = "explained"
    /\ UNCHANGED <<scalar_functions, schema, expr, out, out2, pout, pout2>>

\* rule.optimize(&plan)
Optimize ==
    /\ pc \in {"building", "explained"}
    /\ pout' = optimize(plan)
    /\ pc' = "optimized"
    /\ UNCHANGED <<scalar_functions, schema, expr, out, out2, plan, pout2>>

\* the optimized plan is handed to the rule once more
OptimizeAgain ==
    /\ pc = "optimized"
    /\ pout.tag = "Ok"
    /\ pout2' = optimize(pout.val)
    /\ pc' = "reoptimized"
    /\ UNCHANGED <<scalar_functions, schema, expr, out, out2, plan, pout>>

Next ==
    \/ RewriteExpr
    \/ RewriteAgain
    \/ ScanPlan
    \/ AddNode
    \/ ExplainPlan
    \/ Optimize
    \/ OptimizeAgain

Spec == Init /\ [][Next]_vars

(***************************************************************************)
(* Helpers of the properties                                               *)
(***************************************************************************)
RECURSIVE SubExprs(_)
SubExprs(e) ==
    {e} \cup
    CASE e.kind = "BinaryExpr" -> SubExprs(e.left) \cup SubExprs(e.right)
      [] e.kind \in {"IsNull", "IsNotNull", "Not", "Nested", "Sort", "Cast", "Alias"} ->
            SubExprs(e.expr)
      [] e.kind \in {"ScalarFunction", "AggregateFunction"} ->
            UNION {SubExprs(e.args[i]) : i \in 1..Len(e.args)}
      [] OTHER -> {}

ContainsWildcard(e) == \E n \in SubExprs(e) : n.kind = "Wildcard"

TypeIs(e, s, t) == get_type(e, s) = TOk(t)

Resolves(e, s) == get_type(e, s).tag = "Ok"

\* the types the operands of the binary node n resolve to are equal
Balanced(n, s) ==
    (Resolves(n.left, s) /\ Resolves(n.right, s)) =>
        get_type(n.left, s).val = get_type(n.right, s).val

\* e itself when its type is t, else e under one cast to t
CastIfNot(e, s, t) == IF TypeIs(e, s, t) THEN e ELSE Cast(e, t)

Registered(e) == e.kind = "ScalarFunction" /\ e.name \in DOMAIN scalar_functions
Unregistered(e) == e.kind = "ScalarFunction" /\ e.name \notin DOMAIN scalar_functions

(***************************************************************************)
(* C1: a binary expression whose rewritten operands resolve to the types L *)
(* and R is rebuilt with the same operator; with L = R the operands are    *)
(* the rewritten operands without any cast, with L # R and a supertype S   *)
(* each operand not of type S is wrapped in one cast to S and an operand   *)
(* of type S is left as it is, and without a supertype the rewrite fails   *)
(* with the type error.                                                    *)
(***************************************************************************)
C1_BinaryCoercion ==
    (pc = "rewritten" /\ expr.kind = "BinaryExpr") =>
        LET l == rewrite_expr(expr.left, schema)
            r == rewrite_expr(expr.right, schema)
        IN  (l.tag = "Ok" /\ r.tag = "Ok" /\ Resolves(l.val, schema)
                /\ Resolves(r.val, schema)) =>
            LET L == get_type(l.val, schema).val
                R == get_type(r.val, schema).val
                S == get_supertype(L, R)
            IN  IF L = R
                THEN out.tag = "Ok" /\ out.val = BinaryExpr(l.val, expr.op, r.val)
                ELSE IF S.tag # "Ok"
                THEN out.tag = "Err" /\ out.err = TypeError(L, R)
                ELSE /\ out.tag = "Ok"
                     /\ out.val = BinaryExpr(CastIfNot(l.val, schema, S.val), expr.op,
                                             CastIfNot(r.val, schema, S.val))

Int32Int64 == <<Field("c0", "Int32"), Field("c1", "Int64")>>

C1_Witness ==
    /\ pc = "rewritten"
    /\ expr = BinaryExpr(col0, "Plus", col1)
    /\ schema = Int32Int64
    /\ out.tag = "Ok"
    /\ out.val = BinaryExpr(Cast(col0, "Int64"), "Plus", col1)

(***************************************************************************)
(* C2: after a successful rewrite every binary node of the returned tree,  *)
(* under whatever variant, has operands of equal resolved types.           *)
(***************************************************************************)
C2_AllBinaryBalanced ==
    (pc = "rewritten" /\ out.tag = "Ok") =>
        \A n \in SubExprs(out.val) : n.kind = "BinaryExpr" => Balanced(n, schema)

(***************************************************************************)
(* C3: rewriting an expression that contains a wildcard anywhere fails     *)
(* with an error, and no returned expression contains a wildcard.          *)
(***************************************************************************)
C3_WildcardRejected ==
    pc = "rewritten" =>
        /\ ContainsWildcard(expr) => out.tag = "Err"
        /\ out.tag = "Ok" => ~ContainsWildcard(out.val)

(***************************************************************************)
(* C4: when the rewrite enters a scalar function call whose name is not in *)
(* the registry, the outcome of the whole rewrite_expr or optimize call is *)
(* the error naming that function, and the call is the last expression     *)
(* entered: none of its arguments is rewritten.                            *)
(***************************************************************************)
UnknownFunctionFails(o) ==
    \A i \in 1..Len(o.visited) :
        Unregistered(o.visited[i]) =>
            /\ o.tag = "Err"
            /\ o.err = InvalidFunctionMsg(o.visited[i].name)
            /\ o.val = NoVal
            /\ i = Len(o.visited)

C4_UnknownFunction ==
    /\ pc = "rewritten" => UnknownFunctionFails(out)
    /\ pc = "optimized" => UnknownFunctionFails(pout)

C4_Witness ==
    /\ pc = "rewritten"
    /\ expr = IsNull(ScalarFunction("nofn", <<Wildcard>>, "Float64"))
    /\ out.tag = "Err"
    /\ out.err = InvalidFunctionMsg("nofn")

(***************************************************************************)
(* C5: rewriting the result of a successful rewrite succeeds and gives the *)
(* same tree, for expressions and for plans.                               *)
(***************************************************************************)
IdempotentExpr == pc = "again" => (out2.tag = "Ok" /\ out2.val = out.val)

IdempotentPlan == pc = "reoptimized" => (pout2.tag = "Ok" /\ pout2.val = pout.val)

C5_Idempotent == IdempotentExpr /\ IdempotentPlan

(***************************************************************************)
(* C6: the expressions of a Projection, Selection, Aggregate or Sort node  *)
(* are rewritten against the schema of the plan that optimize returned for *)
(* the child.                                                              *)
(***************************************************************************)
C6_RewrittenChildSchema ==
    (pc = "optimized" /\ pout.tag = "Ok") =>
        LET s == pout.val.input.schema IN
        CASE plan.kind \in {"Projection", "Sort"} ->
                pout.val.expr = rewrite_expr_list(plan.expr, s).val
          [] plan.kind = "Selection" ->
                pout.val.predicate = rewrite_expr(plan.predicate, s).val
          [] plan.kind = "Aggregate" ->
                /\ pout.val.group_expr = rewrite_expr_list(plan.group_expr, s).val
                /\ pout.val.aggr_expr = rewrite_expr_list(plan.aggr_expr, s).val
          [] OTHER -> TRUE

(***************************************************************************)
(* C10: rewrite_expr completes with a rewritten expression or an error     *)
(* value, whatever the expression and the registry.                        *)
(***************************************************************************)
C10_ValueOrError == pc = "rewritten" => out.tag \in {"Ok", "Err"}

(***************************************************************************)
(* C7: a plan without Explain that optimize accepts keeps its node kinds   *)
(* from root to leaf, its leaf, the row count of every Limit and the       *)
(* length and order of every expression list; the expressions differ only  *)
(* in Cast and Nested nodes.                                               *)
(***************************************************************************)
RECURSIVE Erase(_)
\* e without its Cast and Nested nodes
Erase(e) ==
    CASE e.kind \in {"Cast", "Nested"} -> Erase(e.expr)
      [] e.kind = "BinaryExpr" -> BinaryExpr(Erase(e.left), e.op, Erase(e.right))
      [] e.kind \in {"IsNull", "IsNotNull", "Not", "Sort", "Alias"} ->
            [e EXCEPT !.expr = Erase(e.expr)]
      [] e.kind \in {"ScalarFunction", "AggregateFunction"} ->
            [e EXCEPT !.args = [i \in 1..Len(e.args) |-> Erase(e.args[i])]]
      [] OTHER -> e

SameList(es, fs) ==
    /\ Len(es) = Len(fs)
    /\ \A i \in 1..Len(es) : Erase(es[i]) = Erase(fs[i])

RECURSIVE SameShape(_, _)
SameShape(p, q) ==
    /\ p.kind = q.kind
    /\ CASE p.kind \in LeafKinds -> p = q
         [] p.kind \in {"Projection", "Sort"} ->
                SameList(p.expr, q.expr) /\ SameShape(p.input, q.input)
         [] p.kind = "Selection" ->
                Erase(p.predicate) = Erase(q.predicate) /\ SameShape(p.input, q.input)
         [] p.kind = "Aggregate" ->
                /\ SameList(p.group_expr, q.group_expr)
                /\ SameList(p.aggr_expr, q.aggr_expr)
                /\ SameShape(p.input, q.input)
         [] p.kind = "Limit" -> p.n = q.n /\ SameShape(p.input, q.input)
         [] OTHER -> FALSE

C7_ShapePreserved ==
    (pc = "optimized" /\ pout.tag = "Ok" /\ plan.kind # "Explain") =>
        SameShape(plan, pout.val)

\* Limit over a Selection whose predicate gets a cast, over a scan
C7_Witness ==
    /\ pc = "optimized"
    /\ plan.kind = "Limit"
    /\ plan.input.kind = "Selection"
    /\ plan.input.predicate = BinaryExpr(col1, "Lt", Literal("UInt8"))
    /\ plan.input.input = Leaf("CsvScan", ScanSchema)
    /\ pout.tag = "Ok"
    /\ pout.val.n = 10
    /\ pout.val.input.predicate = BinaryExpr(col1, "Lt", Cast(Literal("UInt8"), "Int64"))
    /\ pout.val.input.input = plan.input.input

(***************************************************************************)
(* C8: optimize and rewrite_expr return the first error met in the order   *)
(* child plan, own expressions in list order (group-by list before         *)
(* aggregate list), left operand before right operand, arguments by        *)
(* position, and nothing is evaluated after that failure.                  *)
(***************************************************************************)
\* the outcome o is the failure f, met after the rewrites logged in vis;
\* strict: a failure is returned as an error value
Propagated(o, f, vis, strict) ==
    /\ IF strict THEN o.tag = "Err" ELSE o.tag = f.tag
    /\ o.err = f.err
    /\ o.val = NoVal
    /\ o.visited = vis \o f.visited

OwnExprs(p) ==
    CASE p.kind \in {"Projection", "Sort"} -> p.expr
      [] p.kind = "Selection" -> <<p.predicate>>
      [] p.kind = "Aggregate" -> p.group_expr \o p.aggr_expr
      [] OTHER -> <<>>

RECURSIVE VisitedUpTo(_, _, _)
\* the log of rewriting es[1] .. es[n] against s, each rewrite succeeding
VisitedUpTo(es, n, s) ==
    IF n = 0 THEN <<>>
    ELSE VisitedUpTo(es, n - 1, s) \o rewrite_expr(es[n], s).visited

\* the first of es whose rewrite fails decides the outcome o
FirstOfList(o, es, s, vis, strict) ==
    \A i \in 1..Len(es) :
        (/\ rewrite_expr(es[i], s).tag # "Ok"
         /\ \A j \in 1..(i - 1) : rewrite_expr(es[j], s).tag = "Ok") =>
            Propagated(o, rewrite_expr(es[i], s), vis \o VisitedUpTo(es, i - 1, s), strict)

FailFastPlan(strict) ==
    (pc = "optimized" /\ plan.kind \notin LeafKinds \cup {"Explain"}) =>
        LET child == optimize(plan.input) IN
        IF child.tag # "Ok" THEN Propagated(pout, child, <<>>, strict)
        ELSE FirstOfList(pout, OwnExprs(plan), plan.input.schema, child.visited, strict)

FailFastBinary(strict) ==
    (pc = "rewritten" /\ expr.kind = "BinaryExpr") =>
        LET l == rewrite_expr(expr.left, schema) IN
        IF l.tag # "Ok" THEN Propagated(out, l, <<expr>>, strict)
        ELSE FirstOfList(out, <<expr.left, expr.right>>, schema, <<expr>>, strict)

\* the arguments before position i are rewritten and coerced without failure
ArgsFine(e, i, s) ==
    \A j \in 1..(i - 1) :
        /\ j <= Len(scalar_functions[e.name].args)
        /\ rewrite_expr(e.args[j], s).tag = "Ok"
        /\ coerce_arg(rewrite_expr(e.args[j], s),
                      scalar_functions[e.name].args[j].data_type, s).tag = "Ok"

FailFastArgs(strict) ==
    (pc = "rewritten" /\ Registered(expr)) =>
        \A i \in 1..Len(expr.args) :
            (/\ ArgsFine(expr, i, schema)
             /\ i <= Len(scalar_functions[expr.name].args)
             /\ rewrite_expr(expr.args[i], schema).tag # "Ok") =>
                Propagated(out, rewrite_expr(expr.args[i], schema),
                    <<expr>> \o VisitedUpTo(expr.args, i - 1, schema), strict)

C8_FailFast == FailFastPlan(TRUE) /\ FailFastBinary(TRUE) /\ FailFastArgs(TRUE)

\* the same order, a panic counted as the failure it is
FailFastOrder == FailFastPlan(FALSE) /\ FailFastBinary(FALSE) /\ FailFastArgs(FALSE)

(***************************************************************************)
(* C9: the arguments of a call of a registered scalar function are         *)
(* rewritten; an argument of the declared type D is kept, an argument of   *)
(* another type A ends up with the type supertype(A, D), under one cast    *)
(* unless A is that supertype, and the rewrite fails with the type error   *)
(* when A and D have no supertype; name, return type, number and order of  *)
(* the arguments are kept.                                                 *)
(***************************************************************************)
CoercedArg(a, D, s) ==
    LET A == get_type(a, s).val IN
    IF A = D THEN a ELSE CastIfNot(a, s, get_supertype(A, D).val)

C9_ArgumentCoercion ==
    (pc = "rewritten" /\ Registered(expr)) =>
        LET meta == scalar_functions[expr.name]
            n == Len(expr.args)
        IN  /\ out.tag = "Ok" =>
                /\ out.val.kind = "ScalarFunction"
                /\ out.val.name = expr.name
                /\ out.val.return_type = expr.return_type
                /\ Len(out.val.args) = n
                /\ \A i \in 1..n :
                    LET a == rewrite_expr(expr.args[i], schema).val
                        D == meta.args[i].data_type
                    IN  /\ out.val.args[i] = CoercedArg(a, D, schema)
                        /\ TypeIs(out.val.args[i], schema,
                               get_supertype(get_type(a, schema).val, D).val)
            /\ \A i \in 1..n :
                (/\ ArgsFine(expr, i, schema)
                 /\ i <= Len(meta.args)
                 /\ rewrite_expr(expr.args[i], schema).tag = "Ok"
                 /\ Resolves(rewrite_expr(expr.args[i], schema).val, schema)
                 /\ get_supertype(
                        get_type(rewrite_expr(expr.args[i], schema).val, schema).val,
                        meta.args[i].data_type).tag # "Ok") =>
                    /\ out.tag = "Err"
                    /\ out.err = TypeError(
                        get_type(rewrite_expr(expr.args[i], schema).val, schema).val,
                        meta.args[i].data_type)

\* f2 declares (Int32, Int64): an Int64 argument at position 1 is kept and
\* does not match Int32, a UInt32 argument at position 2 is cast to Int64
C9_Witness ==
    /\ pc = "rewritten"
    /\ expr = ScalarFunction("f2", <<col0, col1>>, "Int32")
    /\ schema = <<Field("c0", "Int64"), Field("c1", "UInt32")>>
    /\ out.tag = "Ok"
    /\ out.val = ScalarFunction("f2", <<col0, Cast(col1, "Int64")>>, "Int32")

(***************************************************************************)
(* Plans all of whose stored schemas are the ones the builder computes     *)
(***************************************************************************)
RECURSIVE BuilderMade(_)
BuilderMade(p) ==
    CASE p.kind \in LeafKinds -> TRUE
      [] p.kind = "Projection" ->
            /\ BuilderMade(p.input)
            /\ exprlist_to_fields(p.expr, p.input.schema) = COk(p.schema)
      [] p.kind = "Aggregate" ->
            /\ BuilderMade(p.input)
            /\ exprlist_to_fields(p.group_expr \o p.aggr_expr, p.input.schema)
                   = COk(p.schema)
      [] p.kind \in {"Selection", "Limit", "Sort"} ->
            BuilderMade(p.input) /\ p.schema = p.input.schema
      [] OTHER -> BuilderMade(p.plan)

\* on builder-made plans the stored schema of the child is the schema of the
\* rewritten child, and a second pass changes nothing
BuilderMadeChildSchema == (pc = "optimized" /\ BuilderMade(plan)) => C6_RewrittenChildSchema

BuilderMadeIdempotent ==
    (pc = "reoptimized" /\ BuilderMade(plan)) => (pout2.tag = "Ok" /\ pout2.val = pout.val)

====
